---- MODULE Spec2Model ----
(***************************************************************************)
(* Point-cloud reconstruction of gwm17/PointCloud-utils (spyral):          *)
(*   - ElectronCorrector.correct_point        (PointSpec)                  *)
(*   - PointCloud.load_cloud_from_get_event and calibrate_z_position       *)
(*                                            (CloudSpec)                  *)
(*   - phase_1, the per-run event loop, and run_spyral's call of it (Spec) *)
(*                                                                         *)
(* Numbers are integers.  The inputs are chosen so that every square root  *)
(* and quotient the code takes is exact on them, so the integer value is   *)
(* the value the float computation denotes.  A point is the 8-tuple        *)
(* [x, y, z, amplitude, integral, pad id, time, scale]; Fld(p, k) is the   *)
(* code's p[k] (0-based).                                                  *)
(***************************************************************************)
EXTENDS Integers, Sequences, FiniteSets, TLC

VARIABLES
    \* PointCloud object and the arguments of load_cloud_from_get_event
    event, pad_map, corrector, cloud, event_number,
    \* CloudSpec: which methods have run on the cloud, last calibration arguments
    stage, calib,
    \* PointSpec: argument array, grid, and result of correct_point
    point, grid, corrected,
    \* phase_1: the run's input files and parameters
    trace_exists, get_group, frib_group, frib_evt_group, evt_data, frib_data,
    correct_ic_time, detector_params,
    \* phase_1: locals, output file, log
    pc, idx, count, queue, point_file, datasets, ic_peak, ic_cor, log, exception,
    \* history: per-cloud calibrate calls, and what was known when a dataset was written
    calibrations, writes

cloud_vars == <<event, pad_map, corrector, cloud, event_number>>
stage_vars == <<stage, calib>>
point_vars == <<point, grid, corrected>>
input_vars == <<trace_exists, get_group, frib_group, frib_evt_group, evt_data,
                frib_data, correct_ic_time, detector_params>>
local_vars == <<pc, idx, count, queue, point_file, datasets, ic_peak, ic_cor, log,
                exception, calibrations, writes>>
vars == <<cloud_vars, stage_vars, point_vars, input_vars, local_vars>>

\* Python's None.  An optional integer n is carried as <<n>>; records are carried
\* as they are.
None == << >>

--------------------------------------------------------------------------
(* Bounds of the model *)

MaxTraces == 2
MaxPeaks == 2
NumEvents == 2

--------------------------------------------------------------------------
(* Program constants *)

INVALID_EVENT_NUMBER == -1
rho_bin_min == 0
rho_bin_max == 275
z_bin_min == 0
z_bin_max == 1000
z_correction_min == 0
z_correction_max == 1000
IC_DEFAULT == -1

--------------------------------------------------------------------------
(* Arithmetic helpers *)

Fld(p, k) == p[k + 1]

Abs(n) == IF n < 0 THEN -n ELSE n

\* np.linalg.norm of a 2-vector (exact on the modelled pads)
norm(x, y) ==
    LET s == x * x + y * y
    IN  CHOOSE r \in 0..(Abs(x) + Abs(y)) : r * r <= s /\ s < (r + 1) * (r + 1)

\* Python's true division where the quotient is integral; floor division agrees
Quot(a, b) == a \div b

clamp(v, lo, hi) == IF v < lo THEN lo ELSE IF v > hi THEN hi ELSE v

--------------------------------------------------------------------------
(* Correction grid and interpolation *)

\* A grid is the field (rho + rho_per_r * r, trans, z + z_per_tb * t) sampled on the
\* unit-spaced nodes of [0, 275] x [0, 1000]; bilinear interpolation of a field
\* affine in r and in t returns the field's value at the clamped query.
Grids ==
    { [rho |-> 0, rho_per_r |-> 0, trans |-> 0, z |-> 0, z_per_tb |-> 0],
      [rho |-> 10, rho_per_r |-> 0, trans |-> 0, z |-> 10, z_per_tb |-> 0],
      [rho |-> -5, rho_per_r |-> 0, trans |-> 5, z |-> -3, z_per_tb |-> 0],
      [rho |-> 0, rho_per_r |-> 1, trans |-> 5, z |-> 1200, z_per_tb |-> 0],
      [rho |-> 5, rho_per_r |-> 0, trans |-> -5, z |-> 0, z_per_tb |-> 1] }

interpolate(g, r, t) ==
    LET rc == clamp(r, rho_bin_min, rho_bin_max)
        tc == clamp(t, z_bin_min, z_bin_max)
    IN  <<g.rho + g.rho_per_r * rc, g.trans, g.z + g.z_per_tb * tc>>

--------------------------------------------------------------------------
(* ElectronCorrector.correct_point *)

\* correct_point with the copy of the trailing fields starting one field late
correct_point_late_copy(p, g) ==
    LET radius == norm(Fld(p, 0), Fld(p, 1))
        correction == interpolate(g, radius, Fld(p, 2))
        z_correction == clamp(correction[3], z_correction_min, z_correction_max)
    IN  [ point |-> p,
          corrected_point |->
              <<Fld(p, 0), Fld(p, 1), Fld(p, 2) - z_correction,
                0, Fld(p, 4), Fld(p, 5), Fld(p, 6), Fld(p, 7)>> ]

\* Returns the argument array as the call leaves it and the array returned.
\* corrected_radius * cos(corrected_azim), with corrected_azim = azimuthal +
\* arctan2(c1, radius + c0), is the x of the vector (radius + c0, c1) rotated by
\* azimuthal, whose cosine and sine are x / radius and y / radius (1 and 0 at
\* radius 0, where arctan2(0, 0) = 0).
correct_point(p, g) ==
    LET radius == norm(Fld(p, 0), Fld(p, 1))
        correction == interpolate(g, radius, Fld(p, 2))
        c0 == correction[1]
        c1 == correction[2]
        z_correction == clamp(correction[3], z_correction_min, z_correction_max)
        cx == IF radius = 0 THEN c0
              ELSE Quot((radius + c0) * Fld(p, 0) - c1 * Fld(p, 1), radius)
        cy == IF radius = 0 THEN c1
              ELSE Quot((radius + c0) * Fld(p, 1) + c1 * Fld(p, 0), radius)
    IN  [ point |-> p,
          corrected_point |->
              <<cx, cy, Fld(p, 2) - z_correction,
                Fld(p, 3), Fld(p, 4), Fld(p, 5), Fld(p, 6), Fld(p, 7)>> ]

--------------------------------------------------------------------------
(* Peaks, pads, hardware ids, traces, events *)

\* The j-th peak a trace reports (peak 1 is the peak of the documented example)
PeakAt(j) == [centroid |-> 100 * j, amplitude |-> 50 * j, integral |-> 10 * j]

Pad1 == [x |-> 10, y |-> 0, time_offset |-> 5, gain |-> 2, scale |-> 1]
Pad2 == [x |-> 3, y |-> 4, time_offset |-> 0, gain |-> 3, scale |-> 2]

\* Hardware ids as the traces carry them: the electronics address (key) and the
\* pad id stored with it.  Key 2 carries pad id 1 but the pad map resolves it to
\* pad 2; key 3 is not in the pad map; key 4 resolves to pad 4, which has no data.
HwIds ==
    { [key |-> 1, pad_id |-> 1], [key |-> 2, pad_id |-> 1],
      [key |-> 3, pad_id |-> 3], [key |-> 4, pad_id |-> 4] }

ThePadMap ==
    [ hardware |-> (1 :> 1) @@ (2 :> 2) @@ (4 :> 4),
      data |-> (1 :> Pad1) @@ (2 :> Pad2) ]

PadMaps == { ThePadMap }

\* The pad id <<n>> the pad map resolves the hardware address to, or None
get_pad_from_hardware(pmap, hw_id) ==
    IF hw_id.key \in DOMAIN pmap.hardware THEN <<pmap.hardware[hw_id.key]>> ELSE None

get_pad_data(pmap, pad_id) ==
    IF pad_id \in DOMAIN pmap.data THEN pmap.data[pad_id] ELSE None

Traces ==
    { [hw_id |-> h, peaks |-> [j \in 1..k |-> PeakAt(j)]] :
          h \in HwIds, k \in 0..MaxPeaks }

get_number_of_peaks(trace) == Len(trace.peaks)

get_peaks(trace) == trace.peaks

TraceSeqs == UNION { [1..n -> Traces] : n \in 0..MaxTraces }

EventNumbers == { 0, 7 }

Events == { [number |-> n, traces |-> ts] : n \in EventNumbers, ts \in TraceSeqs }

Correctors == { None } \cup Grids

--------------------------------------------------------------------------
(* PointCloud *)

RECURSIVE SumPeaks(_, _)
SumPeaks(traces, k) ==
    IF k > Len(traces) THEN 0
    ELSE get_number_of_peaks(traces[k]) + SumPeaks(traces, k + 1)

ZeroRow == <<0, 0, 0, 0, 0, 0, 0, 0>>

\* fill_row with the integral left unscaled by the pad gain
fill_row_no_gain(trace, pad, peak, corr) ==
    LET row == << pad.x, pad.y, peak.centroid + pad.time_offset, peak.amplitude,
                  peak.integral, trace.hw_id.pad_id,
                  peak.centroid + pad.time_offset, pad.scale >>
    IN  IF corr # None THEN correct_point(row, corr).corrected_point ELSE row

\* Lines 103-117: the row written at cloud[idx] for one peak of a resolved trace
fill_row(trace, pad, peak, corr) ==
    LET row == << pad.x, pad.y, peak.centroid + pad.time_offset, peak.amplitude,
                  peak.integral * pad.gain, trace.hw_id.pad_id,
                  peak.centroid + pad.time_offset, pad.scale >>
    IN  IF corr # None THEN correct_point(row, corr).corrected_point ELSE row

\* Lines 84-118 for one trace: the rows it fills, in order, each with the
\* (trace, peak) position it came from
fill_trace(traces, k, pmap, corr) ==
    LET trace == traces[k]
        check == get_pad_from_hardware(pmap, trace.hw_id)
        pid == IF check # None /\ check # <<trace.hw_id.pad_id>>
               THEN check ELSE <<trace.hw_id.pad_id>>
        pad == IF check = None THEN None ELSE get_pad_data(pmap, check[1])
    IN  IF get_number_of_peaks(trace) = 0 THEN << >>
        ELSE IF check = None THEN << >>
        ELSE IF pad = None THEN << >>
        ELSE [ j \in 1..Len(get_peaks(trace)) |->
                 [ row |-> fill_row(trace, pad, get_peaks(trace)[j], corr),
                   trace |-> k, peak |-> j ] ]

RECURSIVE fill_traces(_, _, _, _)
fill_traces(traces, k, pmap, corr) ==
    IF k > Len(traces) THEN << >>
    ELSE fill_trace(traces, k, pmap, corr) \o fill_traces(traces, k + 1, pmap, corr)

\* The rows 0..idx-1 the loop of lines 84-118 fills
filled(ev, pmap, corr) == fill_traces(ev.traces, 1, pmap, corr)

load_cloud_from_get_event(ev, pmap, corr) ==
    LET n == SumPeaks(ev.traces, 1)
        f == filled(ev, pmap, corr)
    IN  [ event_number |-> ev.number,
          cloud |-> [ i \in 1..n |-> IF i <= Len(f) THEN f[i].row ELSE ZeroRow ] ]

DetectorParams ==
    { [micromegas_time_bucket |-> 50, window_time_bucket |-> 500,
       detector_length |-> 900],
      [micromegas_time_bucket |-> 100, window_time_bucket |-> 500,
       detector_length |-> 1200] }

IcCorrections == { 0, 3 }

\* Lines 176-179 for one row
calibrate_row(row, micromegas_tb, window_tb, detector_length, ic_correction) ==
    [ row EXCEPT ![3] =
        Quot((window_tb - Fld(row, 6)) * detector_length, window_tb - micromegas_tb)
        - ic_correction ]

calibrate_z_position(c, micromegas_tb, window_tb, detector_length, ic_correction) ==
    [ i \in 1..Len(c) |->
        calibrate_row(c[i], micromegas_tb, window_tb, detector_length, ic_correction) ]

--------------------------------------------------------------------------
(* Values the variables of the other specifications rest at *)

CloudIdle ==
    /\ event = None /\ pad_map = None /\ corrector = None
    /\ cloud = << >> /\ event_number = INVALID_EVENT_NUMBER

StageIdle == stage = "idle" /\ calib = None

PointIdle == point = None /\ grid = None /\ corrected = None

InputIdle ==
    /\ trace_exists = FALSE /\ get_group = "absent" /\ frib_group = "absent"
    /\ frib_evt_group = "absent" /\ evt_data = << >> /\ frib_data = << >>
    /\ correct_ic_time = FALSE /\ detector_params = None

LocalIdle ==
    /\ pc = "idle" /\ idx = 0 /\ count = 0 /\ queue = 0 /\ point_file = None
    /\ datasets = << >> /\ ic_peak = None /\ ic_cor = 0 /\ log = << >>
    /\ exception = "none" /\ calibrations = 0 /\ writes = << >>

--------------------------------------------------------------------------
(* PointSpec: correct_point on any point and grid *)

Points ==
    { <<xy[1], xy[2], z, a, 20, 1, 105, 1>> :
          xy \in { <<10, 0>>, <<3, 4>>, <<0, 0>>, <<-6, 8>> },
          z \in { -20, 105, 1100 }, a \in { 0, 50 } }

PointInit ==
    /\ point \in Points /\ grid \in Grids /\ corrected = None
    /\ CloudIdle /\ StageIdle /\ InputIdle /\ LocalIdle

CorrectPoint ==
    /\ corrected = None
    /\ LET r == correct_point(point, grid)
       IN  point' = r.point /\ corrected' = r.corrected_point
    /\ UNCHANGED <<grid, cloud_vars, stage_vars, input_vars, local_vars>>

PointNext == CorrectPoint

PointSpec == PointInit /\ [][PointNext]_vars

--------------------------------------------------------------------------
(* CloudSpec: one PointCloud, loaded from an event and calibrated *)

CloudInit ==
    /\ event \in Events /\ pad_map \in PadMaps /\ corrector \in Correctors
    /\ cloud = << >> /\ event_number = INVALID_EVENT_NUMBER
    /\ stage = "empty" /\ calib = None
    /\ PointIdle /\ InputIdle /\ LocalIdle

LoadCloud ==
    /\ stage = "empty"
    /\ LET r == load_cloud_from_get_event(event, pad_map, corrector)
       IN  cloud' = r.cloud /\ event_number' = r.event_number
    /\ stage' = "loaded"
    /\ UNCHANGED <<event, pad_map, corrector, calib, point_vars, input_vars, local_vars>>

CalibrateZ ==
    /\ stage \in { "loaded", "calibrated" }
    /\ \E dp \in DetectorParams, ic \in IcCorrections :
          /\ cloud' = calibrate_z_position(cloud, dp.micromegas_time_bucket,
                           dp.window_time_bucket, dp.detector_length, ic)
          /\ calib' = [params |-> dp, ic_correction |-> ic]
    /\ stage' = "calibrated"
    /\ UNCHANGED <<event, pad_map, corrector, event_number, point_vars, input_vars,
                   local_vars>>

CloudNext == LoadCloud \/ CalibrateZ

CloudSpec == CloudInit /\ [][CloudNext]_vars

--------------------------------------------------------------------------
(* Spec: phase_1 on one run *)

\* The meta dataset's event range
EventRange == [min_event |-> 3, max_event |-> 3 + NumEvents - 1]

min_event == EventRange.min_event

max_event == EventRange.max_event

EventIds == min_event..max_event

\* The traces of the raw records a run's 'get' group may hold: one resolving
\* channel; a channel the pad map does not know followed by a resolving one
RunTraces ==
    { << [hw_id |-> [key |-> 1, pad_id |-> 1], peaks |-> <<PeakAt(1)>>] >>,
      << [hw_id |-> [key |-> 3, pad_id |-> 3], peaks |-> <<PeakAt(1)>>],
         [hw_id |-> [key |-> 2, pad_id |-> 1], peaks |-> <<PeakAt(1), PeakAt(2)>>] >> }

\* What an ion-chamber record yields: its good peak, if any, and the time
\* correction derived from it
FribRecords ==
    { [good_ic_peak |-> None, ic_time_correction |-> 0],
      [good_ic_peak |-> [centroid |-> 40, amplitude |-> 300, integral |-> 900],
       ic_time_correction |-> 3] }

GetEvent(event_data, number) == [number |-> number, traces |-> event_data]

get_good_ic_peak(frib_event) == frib_event.good_ic_peak

FribEvent_correct_ic_time(frib_event, peak) == frib_event.ic_time_correction

create_electron_corrector == CHOOSE g \in Grids : g.z = 10

GroupStates == { "absent", "group", "dataset" }

\* Partial maps from the event ids to S: the keys a group holds
Keyed(S) == UNION { [K -> S] : K \in SUBSET EventIds }

Init ==
    /\ trace_exists \in BOOLEAN
    /\ get_group \in (IF trace_exists THEN GroupStates ELSE { "absent" })
    /\ frib_group \in (IF trace_exists THEN GroupStates ELSE { "absent" })
    /\ frib_evt_group \in (IF frib_group = "group" THEN GroupStates ELSE { "absent" })
    /\ evt_data \in (IF get_group = "group" THEN Keyed(RunTraces) ELSE { << >> })
    /\ frib_data \in (IF frib_evt_group = "group" THEN Keyed(FribRecords) ELSE { << >> })
    /\ correct_ic_time \in BOOLEAN
    /\ detector_params \in DetectorParams
    /\ pad_map = ThePadMap
    /\ event = None /\ corrector = None /\ cloud = << >>
    /\ event_number = INVALID_EVENT_NUMBER
    /\ pc = "start" /\ idx = 0 /\ count = 0 /\ queue = 0 /\ point_file = None
    /\ datasets = << >> /\ ic_peak = None /\ ic_cor = 0 /\ log = << >>
    /\ exception = "none" /\ calibrations = 0 /\ writes = << >>
    /\ StageIdle /\ PointIdle

Says(level, what) == log' = Append(log, [level |-> level, says |-> what])

\* run_spyral's call passes six arguments to the seven-parameter phase_1: the call
\* itself fails and no line of phase_1 runs
run_spyral ==
    /\ pc = "start"
    /\ \E do_phase1 \in BOOLEAN :
          IF do_phase1
          THEN exception' = "TypeError" /\ pc' = "call_failed"
          ELSE exception' = exception /\ pc' = "not_run"
    /\ UNCHANGED <<cloud_vars, stage_vars, point_vars, input_vars, idx, count, queue,
                   point_file, datasets, ic_peak, ic_cor, log, calibrations, writes>>

\* phase_1 called with all its arguments: lines 30-42
phase_1_open ==
    /\ pc = "start"
    /\ IF ~trace_exists
       THEN /\ Says("warn", "skipped")
            /\ pc' = "returned"
            /\ UNCHANGED <<point_file, corrector>>
       ELSE /\ point_file' = [cloud |-> None]
            /\ corrector' = create_electron_corrector
            /\ pc' = "L44"
            /\ UNCHANGED log
    /\ UNCHANGED <<event, pad_map, cloud, event_number, stage_vars, point_vars,
                   input_vars, idx, count, queue, datasets, ic_peak, ic_cor,
                   exception, calibrations, writes>>

\* file[name] followed by the isinstance test
resolve(g, next) ==
    /\ CASE g = "absent" ->
              exception' = "KeyError" /\ pc' = "raised" /\ UNCHANGED log
         [] g = "dataset" ->
              Says("error", "aborted") /\ pc' = "returned" /\ UNCHANGED exception
         [] g = "group" ->
              pc' = next /\ UNCHANGED <<log, exception>>
    /\ UNCHANGED <<cloud_vars, stage_vars, point_vars, input_vars, idx, count, queue,
                   point_file, datasets, ic_peak, ic_cor, calibrations, writes>>

\* resolve_get creating the output group before the test of the input group
resolve_get_after_create ==
    /\ pc = "L44"
    /\ point_file' = [cloud |-> [min_event |-> min_event, max_event |-> max_event]]
    /\ CASE get_group = "absent" ->
              exception' = "KeyError" /\ pc' = "raised" /\ UNCHANGED log
         [] get_group = "dataset" ->
              Says("error", "aborted") /\ pc' = "returned" /\ UNCHANGED exception
         [] get_group = "group" ->
              pc' = "L49" /\ UNCHANGED <<log, exception>>
    /\ UNCHANGED <<cloud_vars, stage_vars, point_vars, input_vars, idx, count, queue,
                   datasets, ic_peak, ic_cor, calibrations, writes>>

resolve_get == pc = "L44" /\ resolve(get_group, "L49")

resolve_frib == pc = "L49" /\ resolve(frib_group, "L53")

resolve_frib_evt == pc = "L53" /\ resolve(frib_evt_group, "L58")

create_cloud_group ==
    /\ pc = "L58"
    /\ point_file' = [cloud |-> [min_event |-> min_event, max_event |-> max_event]]
    /\ count' = 0
    /\ idx' = min_event
    /\ pc' = "L66"
    /\ UNCHANGED <<cloud_vars, stage_vars, point_vars, input_vars, queue, datasets,
                   ic_peak, ic_cor, log, exception, calibrations, writes>>

\* int(flush_percent * (max_event - min_event)), flush_percent = 0.01
flush_val == (max_event - min_event) \div 100

\* One pass through lines 66-84 and 87-89
loop_head ==
    /\ pc = "L66"
    /\ idx <= max_event
    /\ count' = (IF count > flush_val THEN 0 ELSE count) + 1
    /\ queue' = IF count > flush_val THEN queue + 1 ELSE queue
    /\ IF idx \notin DOMAIN evt_data
       THEN /\ idx' = idx + 1
            /\ pc' = "L66"
            /\ UNCHANGED <<event, cloud, event_number, datasets, calibrations>>
       ELSE LET ev == GetEvent(evt_data[idx], idx)
                loaded == load_cloud_from_get_event(ev, pad_map, corrector)
            IN  /\ event' = ev
                /\ cloud' = loaded.cloud
                /\ event_number' = loaded.event_number
                /\ calibrations' = 0
                /\ datasets' = (loaded.event_number :>
                                   [ data |-> [i \in 1..Len(loaded.cloud) |-> ZeroRow],
                                     ic_amplitude |-> IC_DEFAULT,
                                     ic_integral |-> IC_DEFAULT,
                                     ic_centroid |-> IC_DEFAULT ]) @@ datasets
                /\ idx' = idx
                /\ pc' = "L93"
    /\ UNCHANGED <<pad_map, corrector, stage_vars, point_vars, input_vars, point_file,
                   ic_peak, ic_cor, log, exception, writes>>

\* The range is exhausted: line 119
loop_exit ==
    /\ pc = "L66"
    /\ idx > max_event
    /\ Says("info", "completed")
    /\ pc' = "returned"
    /\ UNCHANGED <<cloud_vars, stage_vars, point_vars, input_vars, idx, count, queue,
                   point_file, datasets, ic_peak, ic_cor, exception, calibrations,
                   writes>>

\* frib_lookup letting the missing key's error leave the function
frib_lookup_uncaught ==
    /\ pc = "L93"
    /\ IF idx \notin DOMAIN frib_data
       THEN exception' = "KeyError" /\ pc' = "raised" /\ UNCHANGED ic_peak
       ELSE /\ ic_peak' = get_good_ic_peak(frib_data[idx])
            /\ pc' = "L103"
            /\ UNCHANGED exception
    /\ UNCHANGED <<cloud_vars, stage_vars, point_vars, input_vars, idx, count, queue,
                   point_file, datasets, ic_cor, log, calibrations, writes>>

\* Lines 93-95 and 100-102
frib_lookup ==
    /\ pc = "L93"
    /\ IF idx \notin DOMAIN frib_data
       THEN pc' = "L96" /\ UNCHANGED ic_peak
       ELSE /\ ic_peak' = get_good_ic_peak(frib_data[idx])
            /\ pc' = "L103"
    /\ UNCHANGED <<cloud_vars, stage_vars, point_vars, input_vars, idx, count, queue,
                   point_file, datasets, ic_cor, log, exception, calibrations, writes>>

\* pc.calibrate_z_position(...); ic is the ic_correction argument
calibrate(next, ic) ==
    /\ cloud' = calibrate_z_position(cloud, detector_params.micromegas_time_bucket,
                    detector_params.window_time_bucket,
                    detector_params.detector_length, ic)
    /\ ic_cor' = ic
    /\ calibrations' = calibrations + 1
    /\ pc' = next
    /\ UNCHANGED <<event, pad_map, corrector, event_number, stage_vars, point_vars,
                   input_vars, idx, count, queue, point_file, datasets, ic_peak, log,
                   exception, writes>>

\* pc_dataset[:] = pc.cloud, then the next iteration
write ==
    /\ datasets' = [datasets EXCEPT ![event_number].data = cloud]
    /\ writes' = (event_number :>
                     [calibrations |-> calibrations, ic_correction |-> ic_cor]) @@ writes
    /\ idx' = idx + 1
    /\ pc' = "L66"
    /\ UNCHANGED <<cloud_vars, stage_vars, point_vars, input_vars, count, queue,
                   point_file, ic_peak, ic_cor, log, exception, calibrations>>

calibrate_L96 == pc = "L96" /\ calibrate("L97", 0)

write_L97 == pc = "L97" /\ write

\* check_ic_peak leaving ic_centroid at its default
check_ic_peak_two_attrs ==
    /\ pc = "L103"
    /\ IF ic_peak = None
       THEN pc' = "L104" /\ UNCHANGED datasets
       ELSE /\ datasets' = [datasets EXCEPT
                               ![event_number].ic_amplitude = ic_peak.amplitude,
                               ![event_number].ic_integral = ic_peak.integral]
            /\ pc' = "L111"
    /\ UNCHANGED <<cloud_vars, stage_vars, point_vars, input_vars, idx, count, queue,
                   point_file, ic_peak, ic_cor, log, exception, calibrations, writes>>

\* Lines 103 and 107-109
check_ic_peak ==
    /\ pc = "L103"
    /\ IF ic_peak = None
       THEN pc' = "L104" /\ UNCHANGED datasets
       ELSE /\ datasets' = [datasets EXCEPT
                               ![event_number].ic_amplitude = ic_peak.amplitude,
                               ![event_number].ic_integral = ic_peak.integral,
                               ![event_number].ic_centroid = ic_peak.centroid]
            /\ pc' = "L111"
    /\ UNCHANGED <<cloud_vars, stage_vars, point_vars, input_vars, idx, count, queue,
                   point_file, ic_peak, ic_cor, log, exception, calibrations, writes>>

\* calibrate_L104 with the call left out
calibrate_L104_skipped ==
    /\ pc = "L104"
    /\ pc' = "L105"
    /\ UNCHANGED <<cloud_vars, stage_vars, point_vars, input_vars, idx, count, queue,
                   point_file, datasets, ic_peak, ic_cor, log, exception, calibrations,
                   writes>>

calibrate_L104 == pc = "L104" /\ calibrate("L105", 0)

write_L105 == pc = "L105" /\ write

\* Lines 111-115
calibrate_L111 ==
    /\ pc = "L111"
    /\ IF correct_ic_time
       THEN calibrate("L117", FribEvent_correct_ic_time(frib_data[idx], ic_peak))
       ELSE calibrate("L117", 0)

write_L117 == pc = "L117" /\ write

Next ==
    \/ run_spyral
    \/ phase_1_open
    \/ resolve_get
    \/ resolve_frib
    \/ resolve_frib_evt
    \/ create_cloud_group
    \/ loop_head
    \/ loop_exit
    \/ frib_lookup
    \/ calibrate_L96
    \/ write_L97
    \/ check_ic_peak
    \/ calibrate_L104
    \/ write_L105
    \/ calibrate_L111
    \/ write_L117

Spec == Init /\ [][Next]_vars

--------------------------------------------------------------------------
(* Properties of correct_point (PointSpec) *)

\* C3: correct_point returns a point whose fields 3..7 equal the input's, and
\* leaves the input array as it was
C3_TrailingFieldsKept ==
    [][ corrected' # None =>
          /\ point' = point
          /\ \A k \in 3..7 : Fld(corrected', k) = Fld(point, k) ]_vars

\* a call that moved the point in all of x, y and z
C3_Witness ==
    /\ corrected # None
    /\ \A k \in 0..2 : Fld(corrected, k) # Fld(point, k)
    /\ Fld(point, 3) # 0

--------------------------------------------------------------------------
(* Properties of the PointCloud (CloudSpec) *)

\* Trace k of the event resolves to a pad: both lookups succeed
Resolves(ev, pmap, k) ==
    /\ ev.traces[k].hw_id.key \in DOMAIN pmap.hardware
    /\ pmap.hardware[ev.traces[k].hw_id.key] \in DOMAIN pmap.data

PadOf(ev, pmap, k) == pmap.data[pmap.hardware[ev.traces[k].hw_id.key]]

\* Number of peaks of the resolving traces among traces 1..k
RECURSIVE MappedPeaks(_, _, _)
MappedPeaks(ev, pmap, k) ==
    IF k = 0 THEN 0
    ELSE MappedPeaks(ev, pmap, k - 1)
         + (IF Resolves(ev, pmap, k) THEN Len(ev.traces[k].peaks) ELSE 0)

Loaded == stage \in { "loaded", "calibrated" }

\* C1: the cloud has as many rows as the resolving channels have peaks
C1_RowsEqualMappedPeaks ==
    Loaded => Len(cloud) = MappedPeaks(event, pad_map, Len(event.traces))

\* The point the claim gives for peak j of trace k, the pad id being the one the
\* channel's hardware id carries
ExpectedPoint(ev, pmap, k, j) ==
    LET pad == PadOf(ev, pmap, k)
        peak == ev.traces[k].peaks[j]
    IN  << pad.x, pad.y, peak.centroid + pad.time_offset, peak.amplitude,
           peak.integral * pad.gain, ev.traces[k].hw_id.pad_id,
           peak.centroid + pad.time_offset, pad.scale >>

ZOf(t, c) ==
    Quot((c.params.window_time_bucket - t) * c.params.detector_length,
         c.params.window_time_bucket - c.params.micromegas_time_bucket)
    - c.ic_correction

\* C9: the calibrated z of each point of a cloud built with a corrector is the
\* calibration of that point's field-corrected time (its z field as loaded)
C9_ZFromCorrectedTime ==
    (stage = "calibrated" /\ corrector # None) =>
        LET before == load_cloud_from_get_event(event, pad_map, corrector).cloud
        IN  \A i \in 1..MappedPeaks(event, pad_map, Len(event.traces)) :
                Fld(cloud[i], 2) = ZOf(Fld(before[i], 2), calib)

\* C10: a channel whose resolved pad id differs from the pad id of its hardware
\* id stores the resolved pad id in field 5 of each of its points
C10_ResolvedPadId ==
    Loaded =>
        \A k \in 1..Len(event.traces) :
            (/\ Resolves(event, pad_map, k)
             /\ pad_map.hardware[event.traces[k].hw_id.key]
                   # event.traces[k].hw_id.pad_id) =>
                \A j \in 1..Len(event.traces[k].peaks) :
                    Fld(cloud[MappedPeaks(event, pad_map, k - 1) + j], 5)
                        = pad_map.hardware[event.traces[k].hw_id.key]

--------------------------------------------------------------------------
(* Properties of phase_1 (Spec) *)

Outcome ==
    IF exception # "none" THEN "exception"
    ELSE IF log = << >> THEN "none"
    ELSE log[Len(log)].says

\* phase_1 was entered and has returned or raised
Ended == pc \in { "returned", "raised" }

PassedInit == point_file # None /\ point_file.cloud # None

\* C4: a run ends completed, skipped or aborted (the abort logged as an error),
\* and no exception leaves phase_1
C4_RunOutcome ==
    Ended =>
        /\ exception = "none"
        /\ Outcome \in { "completed", "skipped", "aborted" }
        /\ (Outcome = "aborted" => log[Len(log)].level = "error")

\* C5: with the 'get' group absent (or not a group), phase_1 goes no further
\* than its test of it, and the output file holds no 'cloud' group, no
\* min_event/max_event attributes and no dataset
C5_NoOutputWithoutGet ==
    (trace_exists /\ get_group # "group") =>
        /\ pc \in { "start", "L44", "returned", "raised", "not_run", "call_failed" }
        /\ point_file = None \/ point_file.cloud = None
        /\ datasets = << >>

\* the output container exists and phase_1 has stopped at the absent group
C5_Witness ==
    /\ trace_exists /\ get_group = "absent"
    /\ pc = "raised" /\ exception = "KeyError"
    /\ point_file = [cloud |-> None]

\* The positions of phase_1 inside the event loop
LoopLabels == { "L66", "L93", "L96", "L97", "L103", "L104", "L105", "L111", "L117" }

\* C6: once initialisation has passed, phase_1 raises nothing and leaves the loop
\* only by the completion log after the last event id; every event id the loop
\* has gone by has a written dataset keyed by it exactly if its raw record
\* exists, whatever the ion-chamber records hold; and every step of the loop
\* moves on, to a later event id or to a later line of the same event's body,
\* so nothing holds the loop back from the completion log
C6_EventsContained ==
    /\ [](PassedInit =>
            /\ exception = "none"
            /\ pc \in LoopLabels \cup { "returned" }
            /\ idx \in min_event..(max_event + 1)
            /\ (pc = "returned" => Outcome = "completed" /\ idx = max_event + 1)
            /\ \A e \in EventIds :
                  e < idx => (e \in DOMAIN writes <=> e \in DOMAIN evt_data)
            /\ (pc \in { "L66", "returned" } => DOMAIN datasets = DOMAIN writes)
            /\ DOMAIN datasets \subseteq DOMAIN evt_data)
    /\ [][PassedInit =>
            \/ idx' = idx + 1 /\ pc' = "L66"
            \/ idx' = idx /\ pc = "L66" /\ pc' = (IF idx > max_event THEN "returned" ELSE "L93")
            \/ idx' = idx /\ pc \in LoopLabels \ { "L66" }
                  /\ pc' \in LoopLabels \ { "L66", "L93" } /\ pc' # pc]_vars

\* a completed run whose first event had no raw record and whose last event was
\* written without an ion-chamber record
C6_Witness ==
    /\ pc = "returned" /\ Outcome = "completed"
    /\ min_event \notin DOMAIN evt_data
    /\ max_event \in DOMAIN writes
    /\ max_event \notin DOMAIN frib_data

\* The event's ion-chamber record exists and yields a good peak
HasGoodPeak(e) == e \in DOMAIN frib_data /\ frib_data[e].good_ic_peak # None

\* C7: a cloud is calibrated exactly once, before it is written, and what is
\* written is the calibrated cloud; the ion-chamber correction passed is the
\* derived one when the record exists, has a good peak and correct_ic_time is
\* set, and 0 otherwise
C7_CalibratedOnceBeforeWrite ==
    /\ calibrations <= 1
    /\ \A e \in DOMAIN writes :
          /\ writes[e].calibrations = 1
          /\ writes[e].ic_correction =
                (IF HasGoodPeak(e) /\ correct_ic_time
                 THEN frib_data[e].ic_time_correction ELSE 0)
          /\ datasets[e].data =
                calibrate_z_position(
                    load_cloud_from_get_event(GetEvent(evt_data[e], e), pad_map,
                                              corrector).cloud,
                    detector_params.micromegas_time_bucket,
                    detector_params.window_time_bucket,
                    detector_params.detector_length, writes[e].ic_correction)

\* one cloud written with the derived correction, one without a good peak and
\* one without an ion-chamber record
C7_Witness ==
    /\ \E e \in DOMAIN writes : writes[e].ic_correction # 0
    /\ \E e \in DOMAIN writes : e \notin DOMAIN frib_data
    /\ pc = "L66" /\ calibrations = 1

\* C8: a written cloud's ic_amplitude, ic_integral and ic_centroid are all the
\* sentinel when the ion-chamber record is absent or has no good peak, and are
\* the good peak's amplitude, integral and centroid otherwise
C8_IcMetadata ==
    \A e \in DOMAIN writes :
        LET d == datasets[e]
        IN  IF HasGoodPeak(e)
            THEN /\ d.ic_amplitude = frib_data[e].good_ic_peak.amplitude
                 /\ d.ic_integral = frib_data[e].good_ic_peak.integral
                 /\ d.ic_centroid = frib_data[e].good_ic_peak.centroid
            ELSE /\ d.ic_amplitude = IC_DEFAULT
                 /\ d.ic_integral = IC_DEFAULT
                 /\ d.ic_centroid = IC_DEFAULT

\* one written cloud with a good peak's values and one whose record has no good peak
C8_Witness ==
    /\ \E e \in DOMAIN writes : HasGoodPeak(e) /\ datasets[e].ic_centroid = 40
    /\ \E e \in DOMAIN writes :
          e \in DOMAIN frib_data /\ ~HasGoodPeak(e)
          /\ datasets[e].ic_amplitude = IC_DEFAULT

====
